---- MODULE Spec2Model ----
(***************************************************************************)
(* Todo-App-AI backend: the chat endpoint (app/api/chat.py), the agent     *)
(* loop and fast path (app/agent/todo_agent.py) and the tool registry      *)
(* (app/mcp/tools.py) as one state machine.                                *)
(*                                                                         *)
(* Text is modelled by TLA+ strings (Len, \o and SubSeq work on them).     *)
(* An optional value (Python None or a value) is <<>> or <<v>>.            *)
(* A Python dict is a function from its keys; the empty dict is <<>>.      *)
(***************************************************************************)
EXTENDS Naturals, Integers, Sequences, FiniteSets, TLC

VARIABLES
    tasks,            \* rows of table "tasks" (models/task.py)
    task_seq,         \* next value of the tasks.id sequence
    now,              \* logical clock behind datetime.utcnow for created_at
    conversations,    \* rows of table "conversations": conversations[id] = user_id
    messages,         \* rows of table "messages", in creation order
    pc,               \* where the one in-flight chat request stands
    run_user_id,      \* user_id run_agent was called with
    run_conversation, \* conversation.id of the in-flight request
    iteration,        \* completed passes of the `for _ in range(...)` loop
    pending,          \* tool calls of the current round not yet executed
    tool_calls_made,  \* run_agent's audit trail
    reply,            \* what the last finished request returned to its client
    repertoire,       \* which of ModelRepertoires the model draws from
    tools_requested,  \* history: tool invocations the model requested so far
    llm_calls,        \* history: LLM consultations of the current run
    requested,        \* history: ids of tool calls the model requested, in order
    executed,         \* history: tool executions of the current run, in order
    tool_rounds,      \* history: model responses of the run that requested tools
    raised,           \* history: the invocation whose execution raised, if any
    turn_tasks,       \* history: the rows of "tasks" when the latest request began
    sessions,         \* concurrent tool invocations: what each one's Session holds
    openai_messages,  \* run_agent's running message list, the payload of an LLM call
    quoted,           \* the text _strip_wrapping_quotes is applied to
    stripped          \* what its successive applications returned, in order

vars == <<tasks, task_seq, now, conversations, messages, pc, run_user_id,
          run_conversation, iteration, pending, tool_calls_made, reply,
          repertoire, tools_requested, llm_calls, requested, executed,
          tool_rounds, raised, turn_tasks, sessions, openai_messages, quoted,
          stripped>>

----------------------------------------------------------------------------
(* Bounds of the model and program constants *)

MaxMessages == 4        \* rows the messages table ever gets
MaxToolCalls == 4       \* tool invocations the model requests per behaviour
MaxHistory == 14        \* rows of the one conversation whose payload is built
MaxListed == 12         \* tasks in the store when the fast path lists them
MaxTitle == 5           \* characters of a text given to _strip_wrapping_quotes

MAX_CONTEXT_MESSAGES == 12
MAX_TOOL_ITERATIONS == 4

Users == <<"alice", "bob">>
UserSet == {Users[i] : i \in 1..Len(Users)}

None == <<>>
Some(v) == <<v>>

----------------------------------------------------------------------------
(* app/models/task.py and the store behind sqlmodel.Session *)

\* the store as one value: the rows, the id sequence and the clock
Db(ts, seq, clk) == [tasks |-> ts, task_seq |-> seq, now |-> clk]

Task(id, user_id, title, description, created_at) ==
    [id |-> id, user_id |-> user_id, title |-> title,
     description |-> description, completed |-> FALSE, created_at |-> created_at]

\* select(Task).where(Task.id == task_id, Task.user_id == user_id)
SelectTask_AnyOwner(ts, user_id, task_id) == {t \in ts : t.id = task_id}

SelectTask(ts, user_id, task_id) ==
    {t \in ts : t.id = task_id /\ t.user_id = user_id}

\* .first(): ids are unique, so the selection holds at most one row
First(rows) == CHOOSE t \in rows : TRUE

\* a call that returned: the store after it, its result, and the owner
\* identity the tool function ran under (None when no tool function ran)
Outcome(db, result, ran_as) ==
    [db |-> db, result |-> result, raised |-> FALSE, ran_as |-> ran_as]

\* a call that raised: nothing was committed by it
Raised(db) ==
    [db |-> db, result |-> <<>>, raised |-> TRUE, ran_as |-> None]

NotFound(task_id) ==
    [task_id |-> task_id, status |-> "error", error |-> "Task not found"]

add_task(db, user_id, title, description) ==
    LET task == Task(db.task_seq, user_id, title, description, db.now)
    IN  Outcome(Db(db.tasks \cup {task}, db.task_seq + 1, db.now + 1),
                [task_id |-> task.id, status |-> "created", title |-> task.title],
                Some(user_id))

\* the rows by increasing created_at
RECURSIVE OrderByCreatedAsc(_)
OrderByCreatedAsc(rows) ==
    IF rows = {} THEN <<>>
    ELSE LET t == CHOOSE r \in rows :
                    \A o \in rows : o.created_at > r.created_at
                                    \/ (o.created_at = r.created_at /\ o.id >= r.id)
         IN  <<t>> \o OrderByCreatedAsc(rows \ {t})

\* order_by(Task.created_at.desc()): rows by decreasing created_at
RECURSIVE OrderByCreatedDesc(_)
OrderByCreatedDesc(rows) ==
    IF rows = {} THEN <<>>
    ELSE LET t == CHOOSE r \in rows :
                    \A o \in rows : o.created_at < r.created_at
                                    \/ (o.created_at = r.created_at /\ o.id <= r.id)
         IN  <<t>> \o OrderByCreatedDesc(rows \ {t})

TaskSummary(task) ==
    [id |-> task.id, title |-> task.title, description |-> task.description,
     completed |-> task.completed, created_at |-> task.created_at]

\* list_tasks without the where clause on Task.user_id
list_tasks_AllOwners(db, user_id, status) ==
    LET rows == IF status = "pending" THEN {t \in db.tasks : ~t.completed}
                ELSE IF status = "completed" THEN {t \in db.tasks : t.completed}
                ELSE db.tasks
        ordered == OrderByCreatedDesc(rows)
    IN  Outcome(db, [i \in 1..Len(ordered) |-> TaskSummary(ordered[i])],
                Some(user_id))

list_tasks(db, user_id, status) ==
    LET mine == {t \in db.tasks : t.user_id = user_id}
        rows == IF status = "pending" THEN {t \in mine : ~t.completed}
                ELSE IF status = "completed" THEN {t \in mine : t.completed}
                ELSE mine
        ordered == OrderByCreatedDesc(rows)
    IN  Outcome(db, [i \in 1..Len(ordered) |-> TaskSummary(ordered[i])],
                Some(user_id))

\* complete_task telling a task of another owner from a missing one
complete_task_Forbidden(db, user_id, task_id) ==
    LET found == SelectTask(db.tasks, user_id, task_id)
    IN  IF found = {}
        THEN Outcome(db,
                     IF \E t \in db.tasks : t.id = task_id
                     THEN [task_id |-> task_id, status |-> "error",
                           error |-> "Task belongs to another user"]
                     ELSE NotFound(task_id),
                     Some(user_id))
        ELSE LET task == First(found)
                 done == [task EXCEPT !.completed = TRUE]
             IN  Outcome([db EXCEPT !.tasks = (db.tasks \ {task}) \cup {done}],
                         [task_id |-> task.id, status |-> "completed",
                          title |-> task.title],
                         Some(user_id))

\* complete_task switching the flag over
complete_task_Toggle(db, user_id, task_id) ==
    LET found == SelectTask(db.tasks, user_id, task_id)
    IN  IF found = {} THEN Outcome(db, NotFound(task_id), Some(user_id))
        ELSE LET task == First(found)
                 done == [task EXCEPT !.completed = ~task.completed]
             IN  Outcome([db EXCEPT !.tasks = (db.tasks \ {task}) \cup {done}],
                         [task_id |-> task.id,
                          status |-> IF done.completed THEN "completed" ELSE "pending",
                          title |-> task.title],
                         Some(user_id))

complete_task(db, user_id, task_id) ==
    LET found == SelectTask(db.tasks, user_id, task_id)
    IN  IF found = {} THEN Outcome(db, NotFound(task_id), Some(user_id))
        ELSE LET task == First(found)
                 done == [task EXCEPT !.completed = TRUE]
             IN  Outcome([db EXCEPT !.tasks = (db.tasks \ {task}) \cup {done}],
                         [task_id |-> task.id, status |-> "completed",
                          title |-> task.title],
                         Some(user_id))

\* delete_task removing every task of the owner
delete_task_AllOfOwner(db, user_id, task_id) ==
    LET found == SelectTask(db.tasks, user_id, task_id)
    IN  IF found = {} THEN Outcome(db, NotFound(task_id), Some(user_id))
        ELSE LET task == First(found)
             IN  Outcome([db EXCEPT !.tasks = {t \in db.tasks : t.user_id # user_id}],
                         [task_id |-> task_id, status |-> "deleted",
                          title |-> task.title],
                         Some(user_id))

delete_task(db, user_id, task_id) ==
    LET found == SelectTask(db.tasks, user_id, task_id)
    IN  IF found = {} THEN Outcome(db, NotFound(task_id), Some(user_id))
        ELSE LET task == First(found)
             IN  Outcome([db EXCEPT !.tasks = db.tasks \ {task}],
                         [task_id |-> task_id, status |-> "deleted",
                          title |-> task.title],
                         Some(user_id))

\* update_task storing the description as given, None when it is omitted
update_task_ClearsOmitted(db, user_id, task_id, title, description) ==
    LET found == SelectTask(db.tasks, user_id, task_id)
    IN  IF found = {} THEN Outcome(db, NotFound(task_id), Some(user_id))
        ELSE LET task == First(found)
                 t1 == IF title # None THEN [task EXCEPT !.title = title[1]] ELSE task
                 t2 == [t1 EXCEPT !.description = description]
             IN  Outcome([db EXCEPT !.tasks = (db.tasks \ {task}) \cup {t2}],
                         [task_id |-> t2.id, status |-> "updated", title |-> t2.title],
                         Some(user_id))

\* title and description are None when the caller omits them
update_task(db, user_id, task_id, title, description) ==
    LET found == SelectTask(db.tasks, user_id, task_id)
    IN  IF found = {} THEN Outcome(db, NotFound(task_id), Some(user_id))
        ELSE LET task == First(found)
                 t1 == IF title # None THEN [task EXCEPT !.title = title[1]] ELSE task
                 t2 == IF description # None
                       THEN [t1 EXCEPT !.description = description] ELSE t1
             IN  Outcome([db EXCEPT !.tasks = (db.tasks \ {task}) \cup {t2}],
                         [task_id |-> t2.id, status |-> "updated", title |-> t2.title],
                         Some(user_id))

----------------------------------------------------------------------------
(* app/mcp/tools.py: execute_tool *)

ToolNames == {"add_task", "list_tasks", "complete_task", "delete_task", "update_task"}

\* the keyword parameters of each tool function besides session and user_id
Parameters(tool_name) ==
    CASE tool_name = "add_task"      -> {"title", "description"}
      [] tool_name = "list_tasks"    -> {"status"}
      [] tool_name = "complete_task" -> {"task_id"}
      [] tool_name = "delete_task"   -> {"task_id"}
      [] tool_name = "update_task"   -> {"task_id", "title", "description"}

\* those of them that have no default value
Required(tool_name) ==
    CASE tool_name = "add_task"      -> {"title"}
      [] tool_name = "list_tasks"    -> {}
      [] tool_name = "complete_task" -> {"task_id"}
      [] tool_name = "delete_task"   -> {"task_id"}
      [] tool_name = "update_task"   -> {"task_id"}

\* f(session=session, user_id=user_id, **arguments) binds its parameters:
\* Python raises TypeError for a missing required parameter, for a keyword
\* the function does not have, and for a keyword given twice (user_id, session)
Binds(tool_name, arguments) ==
    /\ Required(tool_name) \subseteq DOMAIN arguments
    /\ DOMAIN arguments \subseteq Parameters(tool_name)

\* arguments.get(key) with the parameter's default None
Opt(arguments, key) ==
    IF key \in DOMAIN arguments THEN Some(arguments[key]) ELSE None

Dispatch(db, user_id, tool_name, arguments) ==
    CASE tool_name = "add_task" ->
            add_task(db, user_id, arguments.title,
                     IF "description" \in DOMAIN arguments
                     THEN Some(arguments.description) ELSE None)
      [] tool_name = "list_tasks" ->
            list_tasks(db, user_id,
                       IF "status" \in DOMAIN arguments THEN arguments.status ELSE "all")
      [] tool_name = "complete_task" -> complete_task(db, user_id, arguments.task_id)
      [] tool_name = "delete_task" -> delete_task(db, user_id, arguments.task_id)
      [] tool_name = "update_task" ->
            update_task(db, user_id, arguments.task_id,
                        Opt(arguments, "title"), Opt(arguments, "description"))

\* execute_tool with the owner taken from the arguments when they name one
execute_tool_ArgumentOwner(db, user_id, tool_name, arguments) ==
    LET owner == IF "user_id" \in DOMAIN arguments THEN arguments.user_id
                 ELSE user_id
        rest == [k \in DOMAIN arguments \ {"user_id"} |-> arguments[k]]
    IN  IF tool_name \notin ToolNames
        THEN Outcome(db, [error |-> "Unknown tool: " \o tool_name], None)
        ELSE IF ~Binds(tool_name, rest) THEN Raised(db)
        ELSE Dispatch(db, owner, tool_name, rest)

\* execute_tool without the check of the tool name: tools[tool_name] raises
execute_tool_KeyError(db, user_id, tool_name, arguments) ==
    IF tool_name \notin ToolNames \/ ~Binds(tool_name, arguments) THEN Raised(db)
    ELSE Dispatch(db, user_id, tool_name, arguments)

execute_tool(db, user_id, tool_name, arguments) ==
    IF tool_name \notin ToolNames
    THEN Outcome(db, [error |-> "Unknown tool: " \o tool_name], None)
    ELSE IF ~Binds(tool_name, arguments) THEN Raised(db)
    ELSE Dispatch(db, user_id, tool_name, arguments)

----------------------------------------------------------------------------
(* Python str and re, as far as todo_agent.py uses them *)

CharAt(s, i) == SubSeq(s, i, i)

Whitespace == {" ", "\t", "\n", "\r", "\f"}
Digits == "0123456789"
UpperCase == "ABCDEFGHIJKLMNOPQRSTUVWXYZ"
LowerCase == "abcdefghijklmnopqrstuvwxyz"

IsDigit(c) == \E i \in 1..Len(Digits) : CharAt(Digits, i) = c

LowerChar(c) ==
    IF \E i \in 1..Len(UpperCase) : CharAt(UpperCase, i) = c
    THEN CharAt(LowerCase, CHOOSE i \in 1..Len(UpperCase) : CharAt(UpperCase, i) = c)
    ELSE c

\* str.lower()
RECURSIVE lower(_)
lower(s) == IF s = "" THEN "" ELSE LowerChar(Head(s)) \o lower(Tail(s))

\* str.lstrip(), str.rstrip(), str.strip()
RECURSIVE lstrip(_)
lstrip(s) == IF s # "" /\ Head(s) \in Whitespace THEN lstrip(Tail(s)) ELSE s

RECURSIVE rstrip(_)
rstrip(s) ==
    IF s # "" /\ CharAt(s, Len(s)) \in Whitespace
    THEN rstrip(SubSeq(s, 1, Len(s) - 1)) ELSE s

strip(s) == rstrip(lstrip(s))

\* sub in s
Contains(s, sub) ==
    \E i \in 1..(Len(s) + 1) :
        i + Len(sub) - 1 <= Len(s) /\ SubSeq(s, i, i + Len(sub) - 1) = sub

\* any(phrase in s for phrase in phrases), phrases a sequence of strings
ContainsAny(s, phrases) == \E k \in 1..Len(phrases) : Contains(s, phrases[k])

\* int(s) for a string of decimal digits
DigitValue(c) == (CHOOSE i \in 1..Len(Digits) : CharAt(Digits, i) = c) - 1

RECURSIVE int(_)
int(s) ==
    IF s = "" THEN 0
    ELSE 10 * int(SubSeq(s, 1, Len(s) - 1)) + DigitValue(CharAt(s, Len(s)))

\* Regular expressions as trees.  A match state is [p, g]: the number of
\* characters consumed and the groups captured so far.  Match returns the
\* match states the backtracking matcher tries, in the order it tries them
\* (greedy first), so the first one that lets the rest of the pattern match
\* is the one re returns.
Lit(s) == [t |-> "lit", s |-> s]
Alt(rs) == [t |-> "alt", rs |-> rs]
Cat(rs) == [t |-> "cat", rs |-> rs]
Optional(r) == [t |-> "opt", r |-> r]
Plus(class) == [t |-> "plus", c |-> class]
Group(r) == [t |-> "grp", r |-> r]
EndOfText == [t |-> "end"]

\* \s, \d and . (any character but a newline)
InClass(class, c) ==
    CASE class = "s" -> c \in Whitespace
      [] class = "d" -> IsDigit(c)
      [] class = "any" -> c # "\n"

\* length of the longest run of characters of the class after position p
RECURSIVE RunLength(_, _, _)
RunLength(class, text, p) ==
    IF p < Len(text) /\ InClass(class, CharAt(text, p + 1))
    THEN 1 + RunLength(class, text, p + 1) ELSE 0

RECURSIVE Match(_, _, _, _)
RECURSIVE MatchEach(_, _, _, _)
RECURSIVE MatchCat(_, _, _, _)
RECURSIVE MatchAlt(_, _, _, _)

\* r tried from each of the states sts, in order
MatchEach(r, text, sts, ignorecase) ==
    IF Len(sts) = 0 THEN <<>>
    ELSE Match(r, text, Head(sts), ignorecase)
         \o MatchEach(r, text, Tail(sts), ignorecase)

MatchCat(rs, text, sts, ignorecase) ==
    IF Len(rs) = 0 THEN sts
    ELSE MatchCat(Tail(rs), text, MatchEach(Head(rs), text, sts, ignorecase), ignorecase)

MatchAlt(rs, text, st, ignorecase) ==
    IF Len(rs) = 0 THEN <<>>
    ELSE Match(Head(rs), text, st, ignorecase)
         \o MatchAlt(Tail(rs), text, st, ignorecase)

Match(r, text, st, ignorecase) ==
    CASE r.t = "lit" ->
            LET piece == SubSeq(text, st.p + 1, st.p + Len(r.s))
            IN  IF /\ st.p + Len(r.s) <= Len(text)
                   /\ IF ignorecase THEN lower(piece) = lower(r.s) ELSE piece = r.s
                THEN <<[st EXCEPT !.p = st.p + Len(r.s)]>>
                ELSE <<>>
      [] r.t = "plus" ->
            LET n == RunLength(r.c, text, st.p)
            IN  [k \in 1..n |-> [st EXCEPT !.p = st.p + n + 1 - k]]
      [] r.t = "opt" -> Match(r.r, text, st, ignorecase) \o <<st>>
      [] r.t = "alt" -> MatchAlt(r.rs, text, st, ignorecase)
      [] r.t = "cat" -> MatchCat(r.rs, text, <<st>>, ignorecase)
      [] r.t = "grp" ->
            LET inner == Match(r.r, text, st, ignorecase)
            IN  [k \in 1..Len(inner) |->
                    [inner[k] EXCEPT
                        !.g = Append(st.g, SubSeq(text, st.p + 1, inner[k].p))]]
      [] r.t = "end" ->
            IF \/ st.p = Len(text)
               \/ (st.p = Len(text) - 1 /\ CharAt(text, Len(text)) = "\n")
            THEN <<st>> ELSE <<>>

\* the groups of the match starting after `start` characters, or None
MatchAt(r, text, start, ignorecase) ==
    LET found == Match(r, text, [p |-> start, g |-> <<>>], ignorecase)
    IN  IF Len(found) = 0 THEN None ELSE Some(found[1].g)

\* re.match(r, text)
re_match(r, text, ignorecase) == MatchAt(r, text, 0, ignorecase)

\* re.search(r, text): the match at the leftmost position that has one
re_search(r, text, ignorecase) ==
    LET starts == {i \in 0..Len(text) : MatchAt(r, text, i, ignorecase) # None}
    IN  IF starts = {} THEN None
        ELSE MatchAt(r, text, CHOOSE i \in starts : \A j \in starts : i <= j,
                     ignorecase)

----------------------------------------------------------------------------
(* app/agent/todo_agent.py: the fast path *)

\* _strip_wrapping_quotes that leaves the quotes in place
_strip_wrapping_quotes_Keep(value) == strip(value)

\* _strip_wrapping_quotes returning value[1:-1] as it is
_strip_wrapping_quotes_Untrimmed(value) ==
    LET v == strip(value)
    IN  IF /\ Len(v) >= 2
           /\ CharAt(v, 1) = CharAt(v, Len(v))
           /\ CharAt(v, 1) \in {"'", "\""}
        THEN SubSeq(v, 2, Len(v) - 1)
        ELSE v

_strip_wrapping_quotes(value) ==
    LET v == strip(value)
    IN  IF /\ Len(v) >= 2
           /\ CharAt(v, 1) = CharAt(v, Len(v))
           /\ CharAt(v, 1) \in {"'", "\""}
        THEN strip(SubSeq(v, 2, Len(v) - 1))
        ELSE v

\* the add pattern without its optional "to"
ADD_RE_NoTo ==
    Cat(<<Alt(<<Lit("add"), Lit("create")>>), Plus("s"),
          Optional(Cat(<<Lit("a"), Plus("s")>>)), Lit("task"), Plus("s"),
          Group(Plus("any")), EndOfText>>)

\* ^(?:add|create)\s+(?:a\s+)?task(?:\s+to)?\s+(.+)$
ADD_RE ==
    Cat(<<Alt(<<Lit("add"), Lit("create")>>), Plus("s"),
          Optional(Cat(<<Lit("a"), Plus("s")>>)), Lit("task"),
          Optional(Cat(<<Plus("s"), Lit("to")>>)), Plus("s"),
          Group(Plus("any")), EndOfText>>)

\* ^remember\s+to\s+(.+)$
REMEMBER_RE ==
    Cat(<<Lit("remember"), Plus("s"), Lit("to"), Plus("s"),
          Group(Plus("any")), EndOfText>>)

\* (?:complete|finish|mark)\s+task\s+(\d+)(?:\s+as\s+(?:done|complete))?
COMPLETE_RE ==
    Cat(<<Alt(<<Lit("complete"), Lit("finish"), Lit("mark")>>), Plus("s"),
          Lit("task"), Plus("s"), Group(Plus("d")),
          Optional(Cat(<<Plus("s"), Lit("as"), Plus("s"),
                         Alt(<<Lit("done"), Lit("complete")>>)>>))>>)

\* (?:delete|remove)\s+task\s+(\d+)
DELETE_RE ==
    Cat(<<Alt(<<Lit("delete"), Lit("remove")>>), Plus("s"), Lit("task"),
          Plus("s"), Group(Plus("d"))>>)

\* (?:change|update|rename)\s+task\s+(\d+)\s+(?:to|as)\s+(.+)$
UPDATE_RE ==
    Cat(<<Alt(<<Lit("change"), Lit("update"), Lit("rename")>>), Plus("s"),
          Lit("task"), Plus("s"), Group(Plus("d")), Plus("s"),
          Alt(<<Lit("to"), Lit("as")>>), Plus("s"), Group(Plus("any")),
          EndOfText>>)

Intent(tool_name, arguments) == Some([name |-> tool_name, arguments |-> arguments])

\* status of the general listing intent
ListingStatus(low) ==
    IF Contains(low, "pending") THEN "pending"
    ELSE IF ContainsAny(low, <<"completed", "done", "finished">>) THEN "completed"
    ELSE "all"

\* _fast_path_command trying the delete pattern before the listing phrases
MatchIntent_DeleteFirst(text) ==
    LET low == strip(lower(text))
        first_add == re_match(ADD_RE, text, TRUE)
        add_match == IF first_add # None THEN first_add
                     ELSE re_match(REMEMBER_RE, text, TRUE)
        complete_match == re_search(COMPLETE_RE, low, FALSE)
        delete_match == re_search(DELETE_RE, low, FALSE)
        update_match == re_search(UPDATE_RE, text, TRUE)
    IN  IF add_match # None /\ _strip_wrapping_quotes(add_match[1][1]) # ""
        THEN Intent("add_task", [title |-> _strip_wrapping_quotes(add_match[1][1])])
        ELSE IF delete_match # None
        THEN Intent("delete_task", [task_id |-> int(delete_match[1][1])])
        ELSE IF ContainsAny(low, <<"what's pending", "what is pending", "pending tasks">>)
        THEN Intent("list_tasks", [status |-> "pending"])
        ELSE IF ContainsAny(low, <<"completed tasks", "done tasks", "finished tasks">>)
        THEN Intent("list_tasks", [status |-> "completed"])
        ELSE IF \/ /\ Contains(low, "task") \/ Contains(low, "todo")
                   /\ ContainsAny(low, <<"list", "show", "what", "display">>)
                \/ low \in {"tasks", "todos", "show tasks", "list tasks"}
        THEN Intent("list_tasks", [status |-> ListingStatus(low)])
        ELSE IF complete_match # None
        THEN Intent("complete_task", [task_id |-> int(complete_match[1][1])])
        ELSE IF update_match # None /\ _strip_wrapping_quotes(update_match[1][2]) # ""
        THEN Intent("update_task",
                    [task_id |-> int(update_match[1][1]),
                     title |-> _strip_wrapping_quotes(update_match[1][2])])
        ELSE None

\* the tool call _fast_path_command makes for the stripped, non-empty text
\* of the latest user message, or None
MatchIntent(text) ==
    LET low == strip(lower(text))
        first_add == re_match(ADD_RE, text, TRUE)
        add_match == IF first_add # None THEN first_add
                     ELSE re_match(REMEMBER_RE, text, TRUE)
        complete_match == re_search(COMPLETE_RE, low, FALSE)
        delete_match == re_search(DELETE_RE, low, FALSE)
        update_match == re_search(UPDATE_RE, text, TRUE)
    IN  IF add_match # None /\ _strip_wrapping_quotes(add_match[1][1]) # ""
        THEN Intent("add_task", [title |-> _strip_wrapping_quotes(add_match[1][1])])
        ELSE IF ContainsAny(low, <<"what's pending", "what is pending", "pending tasks">>)
        THEN Intent("list_tasks", [status |-> "pending"])
        ELSE IF ContainsAny(low, <<"completed tasks", "done tasks", "finished tasks">>)
        THEN Intent("list_tasks", [status |-> "completed"])
        ELSE IF \/ /\ Contains(low, "task") \/ Contains(low, "todo")
                   /\ ContainsAny(low, <<"list", "show", "what", "display">>)
                \/ low \in {"tasks", "todos", "show tasks", "list tasks"}
        THEN Intent("list_tasks", [status |-> ListingStatus(low)])
        ELSE IF complete_match # None
        THEN Intent("complete_task", [task_id |-> int(complete_match[1][1])])
        ELSE IF delete_match # None
        THEN Intent("delete_task", [task_id |-> int(delete_match[1][1])])
        ELSE IF update_match # None /\ _strip_wrapping_quotes(update_match[1][2]) # ""
        THEN Intent("update_task",
                    [task_id |-> int(update_match[1][1]),
                     title |-> _strip_wrapping_quotes(update_match[1][2])])
        ELSE None

\* "\n".join(lines)
RECURSIVE JoinLines(_)
JoinLines(lines) ==
    IF Len(lines) = 0 THEN ""
    ELSE IF Len(lines) = 1 THEN lines[1]
    ELSE lines[1] \o "\n" \o JoinLines(Tail(lines))

TaskLine(item) ==
    (IF item.completed THEN "Done" ELSE "Todo")
    \o " #" \o ToString(item.id) \o ": " \o item.title

LIST_LIMIT == 10

\* ListResponse showing a line for every task
ListResponse_ShowsAll(items) ==
    IF Len(items) = 0 THEN "You don't have any matching tasks yet."
    ELSE "Here are your tasks:\n"
         \o JoinLines([i \in 1..Len(items) |-> TaskLine(items[i])])

ListResponse(items) ==
    IF Len(items) = 0 THEN "You don't have any matching tasks yet."
    ELSE LET shown == IF Len(items) > LIST_LIMIT THEN LIST_LIMIT ELSE Len(items)
             lines == [i \in 1..shown |-> TaskLine(items[i])]
             more == IF Len(items) > LIST_LIMIT
                     THEN <<"...and " \o ToString(Len(items) - LIST_LIMIT) \o " more.">>
                     ELSE <<>>
         IN  "Here are your tasks:\n" \o JoinLines(lines \o more)

\* StatusResponse with the default sentence for every failure
StatusResponse_Sentence(result, status, verb) ==
    IF result.status = status
    THEN verb \o " task #" \o ToString(result.task_id) \o ": " \o result.title \o "."
    ELSE "Task not found."

\* "<Verb> task #<id>: <title>." when result.status is `status`, else the
\* result's error text
StatusResponse(result, status, verb) ==
    IF result.status = status
    THEN verb \o " task #" \o ToString(result.task_id) \o ": " \o result.title \o "."
    ELSE IF "error" \in DOMAIN result THEN result.error ELSE "Task not found."

\* run_tool's response_text for a tool that returned `result`
ResponseText(tool_name, arguments, result) ==
    CASE tool_name = "add_task" -> "Added task: " \o result.title \o "."
      [] tool_name = "list_tasks" -> ListResponse(result)
      [] tool_name = "complete_task" -> StatusResponse(result, "completed", "Completed")
      [] tool_name = "delete_task" -> StatusResponse(result, "deleted", "Deleted")
      [] tool_name = "update_task" -> StatusResponse(result, "updated", "Updated")
      [] OTHER -> "Done."

ToolCallEntry(tool_name, arguments, result) ==
    [name |-> tool_name, arguments |-> arguments, result |-> result]

\* run_tool returning no audit entry
run_tool_NoTrail(db, user_id, tool_name, arguments) ==
    LET out == execute_tool(db, user_id, tool_name, arguments)
    IN  [db |-> out.db, raised |-> out.raised, ran_as |-> out.ran_as,
         response |-> IF out.raised THEN ""
                      ELSE ResponseText(tool_name, arguments, out.result),
         tool_calls |-> <<>>]

\* run_tool: the store after the call, the response and the audit trail
run_tool(db, user_id, tool_name, arguments) ==
    LET out == execute_tool(db, user_id, tool_name, arguments)
    IN  [db |-> out.db, raised |-> out.raised, ran_as |-> out.ran_as,
         response |-> IF out.raised THEN ""
                      ELSE ResponseText(tool_name, arguments, out.result),
         tool_calls |-> IF out.raised THEN <<>>
                        ELSE <<ToolCallEntry(tool_name, arguments, out.result)>>]

\* the latest message of role "user", or None
LatestUser(history) ==
    LET at == {i \in 1..Len(history) : history[i].role = "user"}
    IN  IF at = {} THEN None
        ELSE Some(history[CHOOSE i \in at : \A j \in at : j <= i])

\* what the users type
UserTexts ==
    <<"hello", "add task buy milk">>

\* the tool call _fast_path_command makes when the latest user message has
\* this content, or None
ContentIntent(content) ==
    IF strip(content) = "" THEN None ELSE MatchIntent(strip(content))

\* requests that walk through the patterns of the fast path: one pattern,
\* several patterns at once, and titles that are empty once unquoted
FastTexts ==
    <<"add task buy milk",
      "Create a task to \"call mom\"",
      "remember to  'pay rent' ",
      "ADD TASK list tasks",
      "add task delete task 1",
      "tasks",
      "show pending tasks",
      "show completed tasks not pending",
      "delete task 1 from my list",
      "show me: complete task 1",
      "what if I rename task 1 to x",
      "complete task 1",
      "mark task 1 as done",
      "remove task 1 and mark task 1 as done",
      "delete task 1",
      "delete task 1 then rename task 1 to x",
      "rename task 1 to 'chores'",
      "add task \"\"",
      "create a task to ''",
      "remember to \" \"",
      "rename task 1 to ''",
      "delete task 1, rename task 1 to \"\"",
      "list: update task 1 as ''",
      "hello there">>

KnownTexts == UserTexts \o FastTexts

\* ContentIntent of each of KnownTexts, computed once
UserIntents == [i \in 1..Len(KnownTexts) |-> ContentIntent(KnownTexts[i])]

\* the tool call the fast path makes for this history, or None
FastPathIntent(history) ==
    LET latest_user == LatestUser(history)
    IN  IF Len(latest_user) = 0 THEN None
        ELSE IF \E i \in 1..Len(KnownTexts) : KnownTexts[i] = latest_user[1].content
        THEN UserIntents[CHOOSE i \in 1..Len(KnownTexts) :
                            KnownTexts[i] = latest_user[1].content]
        ELSE ContentIntent(latest_user[1].content)

----------------------------------------------------------------------------
(* app/agent/todo_agent.py: run_agent, and app/api/chat.py: chat *)

FALLBACK_TEXT == "I'm not sure how to help with that."
GENERIC_TEXT ==
    "I've completed the requested operations. Is there anything else you'd like me to do?"

\* json.loads(tool_call.function.arguments) with JSONDecodeError caught.
\* The argument text is carried as what it parses to, or as unparsable.
Json(value) == [parses |-> TRUE, value |-> value]
Unparsable == [parses |-> FALSE, value |-> <<>>]

json_loads(text) == IF text.parses THEN text.value ELSE <<>>

\* `for _ in range(MAX_TOOL_ITERATIONS)` is over after this many passes
LoopDone_OffByOne(passes) == passes > MAX_TOOL_ITERATIONS

LoopDone(passes) == passes >= MAX_TOOL_ITERATIONS

Message(user_id, conversation_id, role, content) ==
    [user_id |-> user_id, conversation_id |-> conversation_id,
     role |-> role, content |-> content]

\* select(Message).where(conversation_id == ...).order_by(created_at)
History(msgs, conversation_id) ==
    SelectSeq(msgs, LAMBDA m : m.conversation_id = conversation_id)

SYSTEM_PROMPT ==
    "You manage todo tasks with tools.\n"
    \o "Use tools for add/list/complete/delete/update actions.\n"
    \o "Be concise and friendly.\n"
    \o "If the user is ambiguous, ask a clarifying question.\n"
    \o "If a task is not found, say so clearly."

\* messages[-MAX_CONTEXT_MESSAGES:]
Recent(history) ==
    IF Len(history) > MAX_CONTEXT_MESSAGES
    THEN SubSeq(history, Len(history) - MAX_CONTEXT_MESSAGES + 1, Len(history))
    ELSE history

\* _recent_openai_messages keeping the oldest messages, not the latest
_recent_openai_messages_Oldest(history) ==
    LET kept == IF Len(history) > MAX_CONTEXT_MESSAGES
                THEN SubSeq(history, 1, MAX_CONTEXT_MESSAGES) ELSE history
    IN  <<[role |-> "system", content |-> SYSTEM_PROMPT]>>
        \o [i \in 1..Len(kept) |->
               [role |-> kept[i].role, content |-> kept[i].content]]

_recent_openai_messages(history) ==
    LET recent == Recent(history)
    IN  <<[role |-> "system", content |-> SYSTEM_PROMPT]>>
        \o [i \in 1..Len(recent) |->
               [role |-> recent[i].role, content |-> recent[i].content]]

Reply(status, conversation_id, response, tool_calls) ==
    [status |-> status, conversation_id |-> conversation_id,
     response |-> response, tool_calls |-> tool_calls]

NoReply == Reply(0, 0, "", <<>>)

CurrentDb == Db(tasks, task_seq, now)

\* what the model answers when it requests no tool: message.content
ModelContents == <<None, Some(""), Some("All set.")>>

\* the tool invocations the model chooses from: name and argument text
ModelToolCalls ==
    <<[name |-> "add_task", arguments |-> Json([title |-> "call mom"])],
      [name |-> "add_task", arguments |-> Unparsable],
      [name |-> "list_tasks", arguments |-> Unparsable],
      [name |-> "send_email", arguments |-> Json([to |-> "bob"])],
      [name |-> "complete_task", arguments |-> Json([task_id |-> 1])],
      [name |-> "delete_task", arguments |-> Json([task_id |-> 1])],
      [name |-> "update_task", arguments |-> Json([task_id |-> 1, title |-> "renamed"])],
      [name |-> "list_tasks", arguments |-> Json([user_id |-> "bob"])],
      [name |-> "add_task", arguments |-> Json([title |-> "spy", user_id |-> "bob"])]>>

\* the responses with tool invocations the model gives, as sequences of
\* indices into ModelToolCalls.  One behaviour draws them from one of these
\* repertoires: creating, changing task 1, naming an owner.
ModelRepertoires ==
    <<{<<2>>, <<4>>, <<4, 1>>},
      {<<5>>, <<6>>, <<7, 6>>},
      {<<8>>, <<9>>, <<3>>, <<6>>, <<3, 9>>}>>

\* tool_call.id of the k-th invocation the model requests in a run
CallId(k) == "call_" \o ToString(k)

\* the processes that serve requests against the one database: each request
\* gets a Session of its own from get_session
Workers == {"w1", "w2"}

\* a Session with no tool invocation under way
NoSession == [pc |-> "idle", user_id |-> "", task_id |-> 0, task |-> None]

Init ==
    /\ tasks = {}
    /\ task_seq = 1
    /\ now = 0
    /\ conversations = <<>>
    /\ messages = <<>>
    /\ pc = "idle"
    /\ run_user_id = ""
    /\ run_conversation = 0
    /\ iteration = 0
    /\ pending = <<>>
    /\ tool_calls_made = <<>>
    /\ reply = NoReply
    /\ repertoire \in 1..Len(ModelRepertoires)
    /\ tools_requested = 0
    /\ llm_calls = 0
    /\ requested = <<>>
    /\ executed = <<>>
    /\ tool_rounds = 0
    /\ raised = None
    /\ turn_tasks = {}
    /\ sessions = [w \in Workers |-> NoSession]
    /\ openai_messages = <<>>
    /\ quoted = ""
    /\ stripped = <<>>

\* the locals of a run that is over
RunOver ==
    /\ pc' = "idle"
    /\ iteration' = 0
    /\ pending' = <<>>
    /\ tool_calls_made' = <<>>
    /\ openai_messages' = <<>>

\* a request that never reaches run_agent
NoRun ==
    /\ run_user_id' = ""
    /\ turn_tasks' = tasks
    /\ run_conversation' = 0
    /\ llm_calls' = 0
    /\ requested' = <<>>
    /\ executed' = <<>>
    /\ tool_rounds' = 0
    /\ raised' = None

\* the authorization check made after the user message is stored
ChatForbidden_Late(user_id, auth_user_id) ==
    /\ pc = "idle"
    /\ user_id # auth_user_id
    /\ Len(messages) < MaxMessages
    /\ messages' = Append(messages, Message(user_id, 0, "user", "hello"))
    /\ reply' = Reply(403, 0, "", <<>>)
    /\ NoRun
    /\ UNCHANGED <<tasks, task_seq, now, conversations, pc, iteration,
                   pending, tool_calls_made, repertoire, sessions, tools_requested,
                   openai_messages, quoted, stripped>>

\* chat, line 51: the path user is not the authenticated user
ChatForbidden(user_id, auth_user_id) ==
    /\ pc = "idle"
    /\ user_id # auth_user_id
    /\ reply' = Reply(403, 0, "", <<>>)
    /\ NoRun
    /\ UNCHANGED <<tasks, task_seq, now, conversations, messages, pc, iteration,
                   pending, tool_calls_made, repertoire, sessions, tools_requested,
                   openai_messages>>
    /\ UNCHANGED <<quoted, stripped>>

\* chat, lines 55-58: the conversation is missing or another user's
ChatNotFound(user_id, conversation_id) ==
    /\ pc = "idle"
    /\ conversation_id # 0
    /\ ~(/\ conversation_id \in DOMAIN conversations
          /\ conversations[conversation_id] = user_id)
    /\ reply' = Reply(404, 0, "", <<>>)
    /\ NoRun
    /\ UNCHANGED <<tasks, task_seq, now, conversations, messages, pc, iteration,
                   pending, tool_calls_made, repertoire, sessions, tools_requested,
                   openai_messages>>
    /\ UNCHANGED <<quoted, stripped>>

\* chat, lines 50-90: an accepted request up to run_agent's first LLM call,
\* or to the end of the request when the fast path answers it.
\* conversation_id = 0 stands for no conversation_id in the request.
Chat(user_id, conversation_id, text) ==
    /\ pc = "idle"
    /\ Len(messages) + 2 <= MaxMessages
    /\ conversation_id # 0 =>
          /\ conversation_id \in DOMAIN conversations
          /\ conversations[conversation_id] = user_id
    /\ LET conv == IF conversation_id # 0 THEN conversation_id
                   ELSE Len(conversations) + 1
           stored == Append(messages, Message(user_id, conv, "user", text))
           history == History(stored, conv)
           intent == FastPathIntent(history)
           fast == run_tool(CurrentDb, user_id, intent[1].name, intent[1].arguments)
       IN  /\ conversations' = IF conversation_id # 0 THEN conversations
                               ELSE Append(conversations, user_id)
           /\ run_user_id' = user_id
           /\ turn_tasks' = tasks
           /\ run_conversation' = conv
           /\ llm_calls' = 0
           /\ requested' = <<>>
           /\ tool_rounds' = 0
           /\ raised' = None
           /\ UNCHANGED <<repertoire, sessions, tools_requested>>
           /\ IF intent # None
              THEN /\ tasks' = fast.db.tasks
                   /\ task_seq' = fast.db.task_seq
                   /\ now' = fast.db.now
                   /\ executed' = <<[id |-> "fast", name |-> intent[1].name,
                                     ran_as |-> fast.ran_as]>>
                   /\ messages' = Append(stored,
                                         Message(user_id, conv, "assistant", fast.response))
                   /\ reply' = Reply(200, conv, fast.response, fast.tool_calls)
                   /\ RunOver
              ELSE /\ messages' = stored
                   /\ executed' = <<>>
                   /\ reply' = NoReply
                   /\ pc' = "llm"
                   /\ iteration' = 0
                   /\ pending' = <<>>
                   /\ tool_calls_made' = <<>>
                   /\ openai_messages' = _recent_openai_messages(history)
                   /\ UNCHANGED <<tasks, task_seq, now>>
    /\ UNCHANGED <<quoted, stripped>>

\* the failure of the LLM call caught and answered with the fallback text
LlmFails_Masked ==
    /\ pc = "llm"
    /\ llm_calls' = llm_calls + 1
    /\ messages' = Append(messages, Message(run_user_id, run_conversation,
                                            "assistant", FALLBACK_TEXT))
    /\ reply' = Reply(200, run_conversation, FALLBACK_TEXT, tool_calls_made)
    /\ RunOver
    /\ UNCHANGED <<tasks, task_seq, now, conversations, run_user_id, turn_tasks,
                   run_conversation, repertoire, sessions, tools_requested, requested,
                   executed, tool_rounds, raised>>
    /\ UNCHANGED <<quoted, stripped>>

\* run_agent, lines 197-203: client.chat.completions.create raises; the
\* exception leaves run_agent and chat
LlmFails ==
    /\ pc = "llm"
    /\ llm_calls' = llm_calls + 1
    /\ reply' = Reply(500, 0, "", <<>>)
    /\ RunOver
    /\ UNCHANGED <<tasks, task_seq, now, conversations, messages, run_user_id, turn_tasks,
                   run_conversation, repertoire, sessions, tools_requested, requested,
                   executed, tool_rounds, raised>>
    /\ UNCHANGED <<quoted, stripped>>

\* FinalText with the fallback for a missing content only
FinalText_NoneOnly(content) ==
    IF content = None THEN FALLBACK_TEXT ELSE content[1]

\* the text run_agent returns for a response without tool calls
FinalText(content) ==
    IF content = None \/ content = Some("") THEN FALLBACK_TEXT ELSE content[1]

\* run_agent, lines 205-209, and chat, lines 92-106: the model answers
\* without tool calls
LlmAnswers(content) ==
    /\ pc = "llm"
    /\ llm_calls' = llm_calls + 1
    /\ messages' = Append(messages, Message(run_user_id, run_conversation,
                                            "assistant", FinalText(content)))
    /\ reply' = Reply(200, run_conversation, FinalText(content), tool_calls_made)
    /\ RunOver
    /\ UNCHANGED <<tasks, task_seq, now, conversations, run_user_id, turn_tasks,
                   run_conversation, repertoire, sessions, tools_requested, requested,
                   executed, tool_rounds, raised>>
    /\ UNCHANGED <<quoted, stripped>>

\* run_agent, lines 205-226: the model requests the invocations `choices`
\* (indices into ModelToolCalls)
RequestTools(choices) ==
    /\ tools_requested + Len(choices) <= MaxToolCalls
    /\ llm_calls' = llm_calls + 1
    /\ tools_requested' = tools_requested + Len(choices)
    /\ pending' = [k \in 1..Len(choices) |->
                      [id |-> CallId(Len(requested) + k),
                       name |-> ModelToolCalls[choices[k]].name,
                       arguments |-> ModelToolCalls[choices[k]].arguments]]
    /\ requested' = requested \o [k \in 1..Len(choices) |-> CallId(Len(requested) + k)]
    /\ pc' = "tools"
    /\ tool_rounds' = tool_rounds + 1
    /\ openai_messages' =
          Append(openai_messages,
                 [role |-> "assistant", content |-> None,
                  tool_calls |->
                     [k \in 1..Len(choices) |->
                         [id |-> CallId(Len(requested) + k), type |-> "function",
                          function |-> [name |-> ModelToolCalls[choices[k]].name,
                                        arguments |->
                                            ModelToolCalls[choices[k]].arguments]]]])
    /\ UNCHANGED <<tasks, task_seq, now, conversations, messages, run_user_id, turn_tasks,
                   run_conversation, iteration, tool_calls_made, reply,
                   repertoire, sessions, executed, raised>>
    /\ UNCHANGED <<quoted, stripped>>

\* tool_calls_made.append(entry)
Track_Prepend(trail, entry) == <<entry>> \o trail

Track(trail, entry) == Append(trail, entry)

\* the result of an executed invocation appended under the id of the first
\* invocation of the run
ToolTurn_FirstId(list, tool_call, result) ==
    Append(list, [role |-> "tool", tool_call_id |-> CallId(1),
                  content |-> Json(result)])

\* openai_messages.append of the result of an executed invocation
ToolTurn(list, tool_call, result) ==
    Append(list, [role |-> "tool", tool_call_id |-> tool_call.id,
                  content |-> Json(result)])

\* run_agent, lines 229-259, and chat, lines 92-106: the next requested
\* invocation is executed; after the last one of the last pass run_agent
\* returns the generic text
ExecuteToolCall ==
    /\ pc = "tools"
    /\ LET tool_call == Head(pending)
           arguments == json_loads(tool_call.arguments)
           out == execute_tool(CurrentDb, run_user_id, tool_call.name, arguments)
           made == Track(tool_calls_made,
                         ToolCallEntry(tool_call.name, arguments, out.result))
       IN  IF out.raised
           THEN /\ reply' = Reply(500, 0, "", <<>>)
                /\ raised' = Some(tool_call)
                /\ RunOver
                /\ UNCHANGED <<tasks, task_seq, now, messages, executed>>
           ELSE /\ tasks' = out.db.tasks
                /\ raised' = None
                /\ task_seq' = out.db.task_seq
                /\ now' = out.db.now
                /\ executed' = Append(executed,
                                      [id |-> tool_call.id, name |-> tool_call.name,
                                       ran_as |-> out.ran_as])
                /\ IF Len(pending) > 1
                   THEN /\ pending' = Tail(pending)
                        /\ tool_calls_made' = made
                        /\ openai_messages' = ToolTurn(openai_messages, tool_call,
                                                       out.result)
                        /\ UNCHANGED <<pc, iteration, messages, reply>>
                   ELSE IF LoopDone(iteration + 1)
                   THEN /\ messages' = Append(messages,
                                              Message(run_user_id, run_conversation,
                                                      "assistant", GENERIC_TEXT))
                        /\ reply' = Reply(200, run_conversation, GENERIC_TEXT, made)
                        /\ RunOver
                   ELSE /\ pc' = "llm"
                        /\ iteration' = iteration + 1
                        /\ pending' = <<>>
                        /\ tool_calls_made' = made
                        /\ openai_messages' = ToolTurn(openai_messages, tool_call,
                                                       out.result)
                        /\ UNCHANGED <<messages, reply>>
    /\ UNCHANGED <<conversations, run_user_id, turn_tasks, run_conversation, repertoire, sessions,
                   tools_requested, llm_calls, requested, tool_rounds>>
    /\ UNCHANGED <<quoted, stripped>>

LlmRequestsTools ==
    /\ pc = "llm"
    /\ \E choices \in ModelRepertoires[repertoire] : RequestTools(choices)

Next ==
    \/ \E u \in UserSet, a \in UserSet : ChatForbidden(u, a)
    \/ \E u \in UserSet, c \in 1..(Len(conversations) + 1) : ChatNotFound(u, c)
    \/ \E u \in UserSet, c \in {0, Len(conversations)}, i \in 1..Len(UserTexts) :
          Chat(u, c, UserTexts[i])
    \/ LlmFails
    \/ \E i \in 1..Len(ModelContents) : LlmAnswers(ModelContents[i])
    \/ LlmRequestsTools
    \/ ExecuteToolCall

Spec == Init /\ [][Next]_vars

\* The fast path alone: requests drawn from FastTexts, and a model that
\* answers in text whenever the fast path declines.
FastInit == Init /\ repertoire = 1

FastChat ==
    \E u \in UserSet, c \in {0, Len(conversations)}, i \in 1..Len(FastTexts) :
        Chat(u, c, FastTexts[i])

FastNext ==
    \/ FastChat
    \/ \E i \in 1..Len(ModelContents) : LlmAnswers(ModelContents[i])

FastSpec == FastInit /\ [][FastNext]_vars

----------------------------------------------------------------------------
(* The tool layer alone: execute_tool called with arguments of every shape
   the tool schema allows, one invocation after the other *)

\* the invocations drawn on: name and parsed arguments
DirectCalls ==
    <<[name |-> "add_task", arguments |-> [title |-> "a"]],
      [name |-> "add_task", arguments |-> [title |-> "b", description |-> "d"]],
      [name |-> "add_task", arguments |-> [title |-> ""]],
      [name |-> "list_tasks", arguments |-> <<>>],
      [name |-> "list_tasks", arguments |-> [status |-> "pending"]],
      [name |-> "list_tasks", arguments |-> [status |-> "completed"]],
      [name |-> "complete_task", arguments |-> [task_id |-> 1]],
      [name |-> "delete_task", arguments |-> [task_id |-> 1]],
      [name |-> "update_task", arguments |-> [task_id |-> 1]],
      [name |-> "update_task", arguments |-> [task_id |-> 1, title |-> "c"]],
      [name |-> "update_task", arguments |-> [task_id |-> 1, description |-> "e"]],
      [name |-> "update_task",
       arguments |-> [task_id |-> 1, title |-> "c", description |-> "e"]],
      [name |-> "update_task", arguments |-> [task_id |-> 1, title |-> ""]]>>

\* the two latest elements of a sequence
LastTwo(seq) ==
    IF Len(seq) > 2 THEN SubSeq(seq, Len(seq) - 1, Len(seq)) ELSE seq

ToolInit == Init /\ repertoire = 1

\* execute_tool(session, user_id, name, arguments) from call to return.
\* tool_calls_made and executed keep the two latest invocations, turn_tasks
\* the rows before the latest one.
Invoke(user_id, call) ==
    /\ pc = "idle"
    /\ tools_requested < MaxToolCalls
    /\ LET out == execute_tool(CurrentDb, user_id, call.name, call.arguments)
       IN  /\ ~out.raised
           /\ tasks' = out.db.tasks
           /\ task_seq' = out.db.task_seq
           /\ now' = out.db.now
           /\ tool_calls_made' =
                 LastTwo(Track(tool_calls_made,
                               ToolCallEntry(call.name, call.arguments, out.result)))
           /\ executed' = LastTwo(Append(executed,
                                         [id |-> "direct", name |-> call.name,
                                          ran_as |-> out.ran_as]))
    /\ tools_requested' = tools_requested + 1
    /\ run_user_id' = user_id
    /\ turn_tasks' = tasks
    /\ UNCHANGED <<conversations, messages, pc, run_conversation, iteration, pending,
                   reply, repertoire, sessions, llm_calls, requested, tool_rounds,
                   raised, openai_messages>>
    /\ UNCHANGED <<quoted, stripped>>

ToolNext == \E u \in UserSet, i \in 1..Len(DirectCalls) : Invoke(u, DirectCalls[i])

ToolSpec == ToolInit /\ [][ToolNext]_vars

----------------------------------------------------------------------------
(* Requests served at the same time: each has its own Session on the one
   database, and a delete_task is a SELECT followed by a DELETE and a commit *)

ConcInit == Init /\ repertoire = 1

\* delete_task, lines 142-144: the SELECT of the task by id and owner
DeleteSelects(w, user_id, task_id) ==
    /\ sessions[w].pc = "idle"
    /\ tools_requested < MaxToolCalls
    /\ LET found == SelectTask(tasks, user_id, task_id)
       IN  sessions' = [sessions EXCEPT ![w] =
                           [pc |-> "selected", user_id |-> user_id,
                            task_id |-> task_id,
                            task |-> IF found = {} THEN None ELSE Some(First(found))]]
    /\ tools_requested' = tools_requested + 1
    /\ UNCHANGED <<tasks, task_seq, now, conversations, messages, pc, run_user_id,
                   turn_tasks, run_conversation, iteration, pending, tool_calls_made,
                   reply, repertoire, llm_calls, requested, executed, tool_rounds,
                   raised, openai_messages>>
    /\ UNCHANGED <<quoted, stripped>>

\* delete_task, lines 146-161: the not-found result when the SELECT gave no
\* row; otherwise session.delete(task) and commit, a DELETE by primary key
\* that removes the row if it is still there and matches no row, without
\* an exception, if another Session has deleted it since
DeleteCommits(w) ==
    /\ sessions[w].pc = "selected"
    /\ LET s == sessions[w]
           result == IF s.task = None THEN NotFound(s.task_id)
                     ELSE [task_id |-> s.task_id, status |-> "deleted",
                           title |-> s.task[1].title]
       IN  /\ tasks' = IF s.task = None THEN tasks
                       ELSE {t \in tasks : t.id # s.task[1].id}
           /\ tool_calls_made' =
                 LastTwo(Track(tool_calls_made,
                               ToolCallEntry("delete_task", [task_id |-> s.task_id],
                                             result)))
           /\ executed' = LastTwo(Append(executed,
                                         [id |-> w, name |-> "delete_task",
                                          ran_as |-> Some(s.user_id)]))
           /\ run_user_id' = s.user_id
    /\ turn_tasks' = tasks
    /\ sessions' = [sessions EXCEPT ![w] = NoSession]
    /\ UNCHANGED <<task_seq, now, conversations, messages, pc, run_conversation,
                   iteration, pending, reply, repertoire, tools_requested, llm_calls,
                   requested, tool_rounds, raised, openai_messages>>
    /\ UNCHANGED <<quoted, stripped>>

ConcNext ==
    \/ \E u \in UserSet : Invoke(u, DirectCalls[1])
    \/ \E w \in Workers, u \in UserSet, id \in 1..2 : DeleteSelects(w, u, id)
    \/ \E w \in Workers : DeleteCommits(w)

ConcSpec == ConcInit /\ [][ConcNext]_vars

----------------------------------------------------------------------------
(* The payload of the first LLM call, for conversations of every length up
   to MaxHistory *)

\* the role and content of the rows a conversation is made of
Turns == <<[role |-> "user", content |-> "hello"],
           [role |-> "assistant", content |-> "All set."]>>

PayloadInit == Init /\ repertoire = 1

\* chat, lines 60-74 and 95-102: a row is added to the conversation of alice
Store(turn) ==
    /\ Len(messages) < MaxHistory
    /\ conversations' = <<"alice">>
    /\ messages' = Append(messages, Message("alice", 1, turn.role, turn.content))
    /\ openai_messages' = <<>>
    /\ UNCHANGED <<tasks, task_seq, now, pc, run_user_id, run_conversation, iteration,
                   pending, tool_calls_made, reply, repertoire, tools_requested,
                   llm_calls, requested, executed, tool_rounds, raised, turn_tasks,
                   sessions>>
    /\ UNCHANGED <<quoted, stripped>>

\* run_agent, line 192: the payload is built from the conversation's rows
BuildPayload ==
    /\ messages # <<>>
    /\ openai_messages = <<>>
    /\ openai_messages' = _recent_openai_messages(History(messages, 1))
    /\ UNCHANGED <<tasks, task_seq, now, conversations, messages, pc, run_user_id,
                   run_conversation, iteration, pending, tool_calls_made, reply,
                   repertoire, tools_requested, llm_calls, requested, executed,
                   tool_rounds, raised, turn_tasks, sessions>>
    /\ UNCHANGED <<quoted, stripped>>

PayloadNext ==
    \/ \E i \in 1..Len(Turns) : Store(Turns[i])
    \/ BuildPayload

PayloadSpec == PayloadInit /\ [][PayloadNext]_vars

----------------------------------------------------------------------------
(* The fast path's listing, over stores of up to MaxListed tasks *)

ListInit == Init /\ repertoire = 1

\* a task of alice, titled by its number, is in the store before the
\* conversation begins: add_task
Seed ==
    /\ messages = <<>>
    /\ Cardinality(tasks) < MaxListed
    /\ LET out == add_task(CurrentDb, "alice", "t" \o ToString(task_seq), None)
       IN  /\ tasks' = out.db.tasks
           /\ task_seq' = out.db.task_seq
           /\ now' = out.db.now
    /\ UNCHANGED <<conversations, messages, pc, run_user_id, run_conversation,
                   iteration, pending, tool_calls_made, reply, repertoire,
                   tools_requested, llm_calls, requested, executed, tool_rounds,
                   raised, turn_tasks, sessions, openai_messages>>
    /\ UNCHANGED <<quoted, stripped>>

\* a task is completed before the conversation begins: complete_task
SeedComplete(task_id) ==
    /\ messages = <<>>
    /\ \E t \in tasks : t.id = task_id /\ ~t.completed
    /\ tasks' = complete_task(CurrentDb, "alice", task_id).db.tasks
    /\ UNCHANGED <<task_seq, now, conversations, messages, pc, run_user_id,
                   run_conversation, iteration, pending, tool_calls_made, reply,
                   repertoire, tools_requested, llm_calls, requested, executed,
                   tool_rounds, raised, turn_tasks, sessions, openai_messages>>
    /\ UNCHANGED <<quoted, stripped>>

\* the requests that list tasks
ListTexts == <<"tasks", "show pending tasks">>

ListNext ==
    \/ Seed
    \/ \E task_id \in 1..2 : SeedComplete(task_id)
    \/ \E c \in {0, Len(conversations)}, i \in 1..Len(ListTexts) :
          Chat("alice", c, ListTexts[i])

ListSpec == ListInit /\ [][ListNext]_vars

----------------------------------------------------------------------------
(* _strip_wrapping_quotes alone, on every text over TitleChars of up to
   MaxTitle characters *)

TitleChars == <<"a", " ", "'", "\"">>

QuoteInit == Init /\ repertoire = 1

\* the text grows by one character
Type(c) ==
    /\ Len(quoted) < MaxTitle
    /\ quoted' = quoted \o c
    /\ stripped' = <<>>
    /\ UNCHANGED <<tasks, task_seq, now, conversations, messages, pc, run_user_id,
                   run_conversation, iteration, pending, tool_calls_made, reply,
                   repertoire, tools_requested, llm_calls, requested, executed,
                   tool_rounds, raised, turn_tasks, sessions, openai_messages>>

\* _strip_wrapping_quotes is applied to the text, and then to what it returned
Strip ==
    /\ Len(stripped) < 2
    /\ stripped' = Append(stripped,
                          _strip_wrapping_quotes(IF stripped = <<>> THEN quoted
                                                 ELSE stripped[Len(stripped)]))
    /\ UNCHANGED <<tasks, task_seq, now, conversations, messages, pc, run_user_id,
                   run_conversation, iteration, pending, tool_calls_made, reply,
                   repertoire, tools_requested, llm_calls, requested, executed,
                   tool_rounds, raised, turn_tasks, sessions, openai_messages,
                   quoted>>

QuoteNext ==
    \/ \E i \in 1..Len(TitleChars) : Type(TitleChars[i])
    \/ Strip

QuoteSpec == QuoteInit /\ [][QuoteNext]_vars

----------------------------------------------------------------------------
(* Properties *)

\* the run of the latest request is over
RunFinished == pc = "idle" /\ run_user_id # ""

\* C1: in every run of run_agent the LLM is consulted at most
\* MAX_TOOL_ITERATIONS (4) times, also when every response requests tools.
C1_AtMostFourConsultations == llm_calls <= MAX_TOOL_ITERATIONS

\* a run in which all four responses requested tools has ended
C1_Witness ==
    /\ RunFinished
    /\ llm_calls = MAX_TOOL_ITERATIONS
    /\ tool_rounds = MAX_TOOL_ITERATIONS
    /\ reply.status = 200

\* C2: every tool execution of a run, on the fast path and on the LLM path,
\* runs under the user_id run_agent was called with, whatever arguments the
\* model supplies; no step of a run adds, changes or removes a row of
\* another owner.
C2_Executions ==
    \A i \in 1..Len(executed) :
        executed[i].ran_as # None => executed[i].ran_as = Some(run_user_id)

C2_Rows ==
    \A t \in tasks \cup tasks' :
        t.user_id # run_user_id' => (t \in tasks /\ t \in tasks')

C2_OwnerScoped == [] C2_Executions /\ [][C2_Rows]_vars

\* the model named another owner in the arguments of an invocation, after an
\* earlier invocation of the same response was executed
C2_Witness ==
    /\ RunFinished
    /\ raised # None
    /\ raised[1].arguments.parses
    /\ "user_id" \in DOMAIN raised[1].arguments.value
    /\ raised[1].arguments.value.user_id # run_user_id
    /\ Len(executed) >= 1
    /\ executed[1].ran_as = Some(run_user_id)

\* the argument mappings the by-id tools are tried with for task `id`
ByIdCalls(id) ==
    <<[name |-> "complete_task", arguments |-> [task_id |-> id]],
      [name |-> "delete_task", arguments |-> [task_id |-> id]],
      [name |-> "update_task", arguments |-> [task_id |-> id]],
      [name |-> "update_task", arguments |-> [task_id |-> id, title |-> "mine now"]],
      [name |-> "update_task", arguments |-> [task_id |-> id, description |-> "note"]],
      [name |-> "update_task",
       arguments |-> [task_id |-> id, title |-> "mine now", description |-> "note"]]>>

\* the entries of an audit trail that have the given tool name
EntriesOf(trail, tool_name) == {i \in 1..Len(trail) : trail[i].name = tool_name}

\* C3: complete_task, delete_task and update_task called by an owner with
\* the id of a task of another owner return status "error" with error
\* "Task not found", return no title, and leave every row as it was; as the
\* store is unchanged this holds for every sequence of such calls.
C3_ForeignTaskNotFound ==
    \A t \in tasks : \A u \in UserSet \ {t.user_id} :
        \A k \in 1..Len(ByIdCalls(t.id)) :
            LET call == ByIdCalls(t.id)[k]
                out == execute_tool(CurrentDb, u, call.name, call.arguments)
            IN  /\ ~out.raised
                /\ DOMAIN out.result = {"task_id", "status", "error"}
                /\ out.result.task_id = t.id
                /\ out.result.status = "error"
                /\ out.result.error = "Task not found"
                /\ out.db = CurrentDb

\* a run deleted task 1 in vain: the task is another owner's and still there
C3_Witness ==
    /\ RunFinished
    /\ reply.status = 200
    /\ \E i \in EntriesOf(reply.tool_calls, "delete_task") :
          /\ reply.tool_calls[i].result.status = "error"
          /\ \E t \in tasks : /\ t.id = reply.tool_calls[i].arguments.task_id
                              /\ t.user_id # run_user_id

\* the store without the row t
Without(t) == Db(tasks \ {t}, task_seq, now)

\* C4: for complete_task, delete_task and update_task the requesting owner
\* gets the same result and the same response text whether the id is that of
\* another owner's task or of no task at all, and the requester's own rows
\* end up the same.
C4_ForeignLikeMissing ==
    \A t \in tasks : \A u \in UserSet \ {t.user_id} :
        \A k \in 1..Len(ByIdCalls(t.id)) :
            LET call == ByIdCalls(t.id)[k]
                there == execute_tool(CurrentDb, u, call.name, call.arguments)
                gone == execute_tool(Without(t), u, call.name, call.arguments)
            IN  /\ there.raised = gone.raised
                /\ DOMAIN there.result = DOMAIN gone.result
                /\ \A f \in DOMAIN there.result : there.result[f] = gone.result[f]
                /\ ResponseText(call.name, call.arguments, there.result)
                     = ResponseText(call.name, call.arguments, gone.result)
                /\ there.db.tasks \ {t} = gone.db.tasks

\* a run tried to complete task 1, which is another owner's and stays pending
C4_Witness ==
    /\ RunFinished
    /\ reply.status = 200
    /\ \E i \in EntriesOf(reply.tool_calls, "complete_task") :
          /\ reply.tool_calls[i].result.status = "error"
          /\ \E t \in tasks : /\ t.id = reply.tool_calls[i].arguments.task_id
                              /\ t.user_id # run_user_id
                              /\ ~t.completed

\* C5: when the model requests a tool with arguments that do not parse,
\* run_agent substitutes an empty mapping and does not raise; the tool's own
\* result is recorded and the loop goes on.  Stated as: no invocation with
\* unparsable arguments ever raises.
C5_UnparsableNeverRaises ==
    raised # None => raised[1].arguments.parses

\* C6: the audit trail of a run holds one entry per tool execution of the
\* run, in the order of execution, and a returned trail of the LLM path
\* follows the order in which the model requested the invocations.
TrailMatches(trail) ==
    /\ Len(trail) = Len(executed)
    /\ \A i \in 1..Len(trail) : trail[i].name = executed[i].name

C6_TrailInOrder ==
    /\ pc # "idle" => TrailMatches(tool_calls_made)
    /\ (RunFinished /\ reply.status = 200) =>
          /\ TrailMatches(reply.tool_calls)
          /\ llm_calls > 0 =>
                /\ Len(executed) = Len(requested)
                /\ \A i \in 1..Len(executed) : executed[i].id = requested[i]

\* a run returned a trail of three or more entries from two or more
\* responses, one of which requested two different tools
C6_Witness ==
    /\ RunFinished
    /\ reply.status = 200
    /\ Len(reply.tool_calls) >= 3
    /\ tool_rounds >= 2
    /\ tool_rounds < Len(reply.tool_calls)
    /\ \E i \in 1..(Len(reply.tool_calls) - 1) :
          reply.tool_calls[i].name # reply.tool_calls[i + 1].name

\* a response without tool calls ends the run with the trail made so far
\* and without touching the store
AnswerEndsRun ==
    /\ pc' = "idle"
    /\ reply'.status = 200
    /\ reply'.tool_calls = tool_calls_made
    /\ llm_calls' = llm_calls + 1
    /\ executed' = executed
    /\ tasks' = tasks

\* no LLM call and no tool execution of a run happens once the run is over
IdleMakesNoCalls ==
    pc = "idle" =>
        ~(\/ LlmFails
          \/ LlmRequestsTools
          \/ ExecuteToolCall
          \/ \E i \in 1..Len(ModelContents) : LlmAnswers(ModelContents[i]))

\* C7 as stated: a response without tool invocations ends the run in that
\* round, the final text is the text the model returned, for every text, the
\* trail is the one of the earlier rounds, and no further call happens.
C7_AnyTextIsFinal ==
    [][/\ \A i \in 1..Len(ModelContents) :
            (LlmAnswers(ModelContents[i]) /\ ModelContents[i] # None) =>
                (AnswerEndsRun /\ reply'.response = ModelContents[i][1])
       /\ IdleMakesNoCalls]_vars

\* C7 amended: the final text is the model's text when that text is not
\* empty, and the fixed fallback sentence when it is empty or missing.
C7_NonEmptyTextIsFinal ==
    [][/\ \A i \in 1..Len(ModelContents) :
            LlmAnswers(ModelContents[i]) =>
                /\ AnswerEndsRun
                /\ reply'.response =
                      IF ModelContents[i] = None \/ ModelContents[i] = Some("")
                      THEN FALLBACK_TEXT ELSE ModelContents[i][1]
       /\ IdleMakesNoCalls]_vars

\* the model answered "All set." after a round of tool calls
C7_Witness ==
    /\ RunFinished
    /\ reply.status = 200
    /\ reply.response = "All set."
    /\ llm_calls >= 2
    /\ Len(reply.tool_calls) >= 1

\* C8: when the model requests tools in all four rounds the run ends without
\* raising and returns the generic text with the trail of every invocation
\* of the four rounds.
C8_CeilingReturnsGeneric ==
    (RunFinished /\ tool_rounds = MAX_TOOL_ITERATIONS) =>
        /\ reply.status = 200
        /\ reply.response = GENERIC_TEXT
        /\ Len(reply.tool_calls) = Len(requested)

\* the argument mappings an unknown tool is tried with
UnknownToolCalls ==
    <<[name |-> "send_email", arguments |-> <<>>],
      [name |-> "send_email", arguments |-> [to |-> "bob"]],
      [name |-> "drop_tasks", arguments |-> [user_id |-> "bob"]],
      [name |-> "Add_Task", arguments |-> [title |-> "x"]],
      [name |-> "", arguments |-> [task_id |-> 1]]>>

\* C9: execute_tool with a name outside the five tools returns
\* {error: "Unknown tool: <name>"} for every argument mapping, does not raise
\* and leaves the store unchanged; in the agent loop the result becomes an
\* audit entry and the run goes on.
C9_Registry ==
    \A k \in 1..Len(UnknownToolCalls) : \A u \in UserSet :
        LET call == UnknownToolCalls[k]
            out == execute_tool(CurrentDb, u, call.name, call.arguments)
        IN  /\ ~out.raised
            /\ DOMAIN out.result = {"error"}
            /\ out.result.error = "Unknown tool: " \o call.name
            /\ out.db = CurrentDb

C9_Loop ==
    (ExecuteToolCall /\ Head(pending).name \notin ToolNames) =>
        LET trail == IF pc' = "idle" THEN reply'.tool_calls ELSE tool_calls_made'
        IN  /\ tasks' = tasks
            /\ raised' = None
            /\ reply'.status # 500
            /\ Len(trail) = Len(tool_calls_made) + 1
            /\ trail[Len(trail)].name = Head(pending).name
            /\ trail[Len(trail)].result.error
                 = "Unknown tool: " \o Head(pending).name
            /\ pc' = (IF Len(pending) > 1 THEN "tools"
                      ELSE IF iteration + 1 < MAX_TOOL_ITERATIONS THEN "llm"
                      ELSE "idle")

C9_UnknownToolIsAnError == [] C9_Registry /\ [][C9_Loop]_vars

\* a run went on after the unknown tool send_email and returned both entries
C9_Witness ==
    /\ RunFinished
    /\ reply.status = 200
    /\ Len(reply.tool_calls) >= 2
    /\ reply.tool_calls[1].name = "send_email"
    /\ reply.tool_calls[1].result.error = "Unknown tool: send_email"
    /\ reply.tool_calls[2].name = "add_task"

\* C10: when the LLM call fails in any round the request fails: the user's
\* message of the turn stays stored as the last row of the conversation, no
\* assistant message is stored for the turn and no text is returned.
C10_Step ==
    LlmFails =>
        /\ reply'.status = 500
        /\ reply'.response = ""
        /\ reply'.tool_calls = <<>>
        /\ pc' = "idle"
        /\ messages' = messages
        /\ LET history == History(messages', run_conversation)
           IN  /\ Len(history) >= 1
               /\ history[Len(history)].role = "user"
               /\ history[Len(history)].user_id = run_user_id

\* rows of the messages table are never changed or removed
MessagesKept ==
    /\ Len(messages') >= Len(messages)
    /\ SubSeq(messages', 1, Len(messages)) = messages

C10_LlmFailureFailsTurn == [][C10_Step /\ MessagesKept]_vars

\* the LLM call failed in a later round, after a tool was executed, and a
\* later request was served
C10_Witness ==
    /\ pc = "idle"
    /\ reply.status = 500
    /\ raised = None
    /\ llm_calls >= 2
    /\ Len(executed) >= 1
    /\ LET history == History(messages, run_conversation)
       IN  history[Len(history)].role = "user"

\* C11: a turn aborted by a failure of the LLM call, in whatever round,
\* leaves the rows of "tasks" as they were when the turn began.
C11_AbortedTurnKeepsStore ==
    (RunFinished /\ reply.status = 500 /\ raised = None) => tasks = turn_tasks

----------------------------------------------------------------------------
(* The fast path, checked under FastSpec *)

\* content of the latest user message of the run's conversation
LatestText ==
    LET latest_user == LatestUser(History(messages, run_conversation))
    IN  IF latest_user = None THEN "" ELSE latest_user[1].content

\* what the fast-path matcher makes of the latest user message of the run
RunIntent == FastPathIntent(History(messages, run_conversation))

\* C12: when the fast-path matcher matches the latest user message, run_agent
\* executes exactly one tool, the one matched, returns an audit trail of
\* exactly one entry and makes no LLM call; when it does not match, no tool
\* is executed and the store is untouched before the first LLM call.
C12_FastPathRunsOneTool ==
    run_user_id # "" =>
        IF RunIntent # None
        THEN /\ pc = "idle"
             /\ llm_calls = 0
             /\ Len(executed) = 1
             /\ executed[1].name = RunIntent[1].name
             /\ reply.status = 200
             /\ Len(reply.tool_calls) = 1
             /\ reply.tool_calls[1].name = RunIntent[1].name
        ELSE llm_calls = 0 =>
                /\ pc = "llm"
                /\ executed = <<>>
                /\ tasks = turn_tasks

\* a matched request ran its one tool, after a request the matcher declined
\* and the model answered
C12_Witness ==
    /\ RunFinished
    /\ Len(executed) = 1
    /\ RunIntent # None
    /\ RunIntent[1].name = "complete_task"
    /\ Len(reply.tool_calls) = 1
    /\ llm_calls = 0
    /\ Len(messages) = 4
    /\ messages[1].content = "hello there"

\* which of the six patterns of _fast_path_command the content satisfies, in
\* the order of the source: add (with a title left), explicit pending or
\* completed phrase, general listing intent, complete, delete, update (with
\* a title left)
Satisfies(content) ==
    LET text == strip(content)
        low == strip(lower(text))
        first_add == re_match(ADD_RE, text, TRUE)
        add_match == IF first_add # None THEN first_add
                     ELSE re_match(REMEMBER_RE, text, TRUE)
        update_match == re_search(UPDATE_RE, text, TRUE)
    IN  <<add_match # None /\ _strip_wrapping_quotes(add_match[1][1]) # "",
          \/ ContainsAny(low, <<"what's pending", "what is pending", "pending tasks">>)
          \/ ContainsAny(low, <<"completed tasks", "done tasks", "finished tasks">>),
          \/ /\ Contains(low, "task") \/ Contains(low, "todo")
             /\ ContainsAny(low, <<"list", "show", "what", "display">>)
          \/ low \in {"tasks", "todos", "show tasks", "list tasks"},
          re_search(COMPLETE_RE, low, FALSE) # None,
          re_search(DELETE_RE, low, FALSE) # None,
          update_match # None /\ _strip_wrapping_quotes(update_match[1][2]) # "">>

PatternTool ==
    <<"add_task", "list_tasks", "list_tasks", "complete_task", "delete_task",
      "update_task">>

\* Satisfies of each of FastTexts, computed once
FastSatisfies == [i \in 1..Len(FastTexts) |-> Satisfies(FastTexts[i])]

\* the tool _fast_path_command runs for each of FastTexts ("" for none)
FastTools ==
    <<"add_task", "add_task", "add_task", "add_task", "add_task",
      "list_tasks", "list_tasks", "list_tasks", "list_tasks", "list_tasks",
      "list_tasks",
      "complete_task", "complete_task", "complete_task",
      "delete_task", "delete_task",
      "update_task",
      "", "", "", "",
      "delete_task", "list_tasks", "">>

\* the status list_tasks is run with for each of FastTexts ("" for no listing)
FastStatus ==
    <<"", "", "", "", "",
      "all", "pending", "completed", "all", "all", "all",
      "", "", "", "", "", "", "", "", "", "", "",
      "all", "">>

FastIntent(i) == UserIntents[Len(UserTexts) + i]

\* the first pattern the i-th of FastTexts satisfies (0 for none)
FirstPattern(i) ==
    LET hits == {k \in 1..6 : FastSatisfies[i][k]}
    IN  IF hits = {} THEN 0 ELSE CHOOSE k \in hits : \A j \in hits : k <= j

C13_Choice ==
    \A i \in 1..Len(FastTexts) :
        /\ IF FirstPattern(i) = 0 THEN FastIntent(i) = None
           ELSE /\ FastIntent(i) # None
                /\ FastIntent(i)[1].name = PatternTool[FirstPattern(i)]
        /\ IF FastTools[i] = "" THEN FastIntent(i) = None
           ELSE /\ FastIntent(i) # None
                /\ FastIntent(i)[1].name = FastTools[i]
                /\ FastTools[i] = "list_tasks" =>
                      FastIntent(i)[1].arguments.status = FastStatus[i]

C13_ListingMutatesNothing ==
    \A i \in 1..Len(FastTexts) :
        \A u \in UserSet, c \in {0, Len(conversations)} :
            (Chat(u, c, FastTexts[i]) /\ FirstPattern(i) \in {2, 3}) =>
                /\ tasks' = tasks
                /\ Len(reply'.tool_calls) = 1
                /\ reply'.tool_calls[1].name = "list_tasks"

\* C13: of the patterns a message satisfies, the first in the order add,
\* explicit pending/completed phrase, general listing, complete, delete,
\* update chooses the tool; a message that satisfies a listing pattern
\* besides delete, complete or update runs list_tasks and changes no task.
C13_FirstPatternWins == [] C13_Choice /\ [][C13_ListingMutatesNothing]_vars

\* the owner of task 1 asked "delete task 1 from my list" and got the list
C13_Witness ==
    /\ RunFinished
    /\ LatestText = "delete task 1 from my list"
    /\ \E t \in tasks : t.id = 1 /\ t.user_id = run_user_id
    /\ Len(reply.tool_calls) = 1
    /\ reply.tool_calls[1].name = "list_tasks"
    /\ Len(reply.tool_calls[1].result) >= 1

\* the FastTexts whose add match, or update match, leaves an empty title
\* once the quotes are stripped
EmptyAddTexts == {18, 19, 20}
EmptyUpdateTexts == {21, 22, 23}

\* the fast path declined: nothing ran, the store is as it was, and
\* run_agent stands before its first LLM call
Declined ==
    /\ pc' = "llm"
    /\ llm_calls' = 0
    /\ executed' = <<>>
    /\ tool_calls_made' = <<>>
    /\ tasks' = tasks

AddShaped ==
    <<[text |-> 1, title |-> "buy milk"],
      [text |-> 2, title |-> "call mom"],
      [text |-> 3, title |-> "pay rent"],
      [text |-> 4, title |-> "list tasks"],
      [text |-> 5, title |-> "delete task 1"]>>

\* C15: an add-shaped message with non-empty title T is answered with
\* "Added task: T." and an audit trail of one entry, add_task with arguments
\* {title: T}; the owner's store gains exactly one task, titled T and not
\* completed, and no other task changes.
C15_AddCreatesOneTask ==
    [][\A k \in 1..Len(AddShaped) :
         \A u \in UserSet, c \in {0, Len(conversations)} :
            Chat(u, c, FastTexts[AddShaped[k].text]) =>
                /\ reply'.status = 200
                /\ reply'.response = "Added task: " \o AddShaped[k].title \o "."
                /\ Len(reply'.tool_calls) = 1
                /\ reply'.tool_calls[1].name = "add_task"
                /\ DOMAIN reply'.tool_calls[1].arguments = {"title"}
                /\ reply'.tool_calls[1].arguments.title = AddShaped[k].title
                /\ tasks \subseteq tasks'
                /\ Cardinality(tasks' \ tasks) = 1
                /\ \A t \in tasks' \ tasks :
                      /\ t.user_id = u
                      /\ t.title = AddShaped[k].title
                      /\ t.completed = FALSE
                      /\ \A o \in tasks : o.id # t.id]_vars

\* "Create a task to "call mom"" was served on a store that held a task
C15_Witness ==
    /\ RunFinished
    /\ LatestText = FastTexts[2]
    /\ reply.response = "Added task: call mom."
    /\ turn_tasks # {}
    /\ Cardinality(tasks) = Cardinality(turn_tasks) + 1
    /\ \E t \in tasks \ turn_tasks : t.title = "call mom" /\ t.user_id = run_user_id

----------------------------------------------------------------------------
(* C16: add_task, then list_tasks(status = pending) in the same owner scope *)

\* the two latest invocations are add_task and then list_tasks with status
\* pending, both run for the same owner
AddThenListPending ==
    /\ Len(tool_calls_made) = 2
    /\ tool_calls_made[1].name = "add_task"
    /\ tool_calls_made[2].name = "list_tasks"
    /\ Opt(tool_calls_made[2].arguments, "status") = Some("pending")
    /\ executed[1].ran_as = executed[2].ran_as

----------------------------------------------------------------------------
(* C17: what list_tasks returns *)

\* the latest invocation, a list_tasks, and the rows it has to return
LatestCall == tool_calls_made[Len(tool_calls_made)]

Listed == tool_calls_made # <<>> /\ LatestCall.name = "list_tasks"

Wanted ==
    LET status == IF "status" \in DOMAIN LatestCall.arguments
                  THEN LatestCall.arguments.status ELSE "all"
    IN  {t \in tasks : /\ t.user_id = run_user_id
                       /\ status = "pending" => ~t.completed
                       /\ status = "completed" => t.completed}

\* C17: list_tasks returns the caller's tasks that satisfy the filter and
\* no others, each once, a later created_at before an earlier one, with the
\* fields of the stored task; it changes nothing in the store.
C17_ListIsOwnersFiltered ==
    Listed =>
        LET listed == LatestCall.result
        IN  /\ {listed[i].id : i \in DOMAIN listed} = {t.id : t \in Wanted}
            /\ Len(listed) = Cardinality(Wanted)
            /\ \A i \in DOMAIN listed : \A j \in DOMAIN listed :
                  i < j => listed[i].created_at > listed[j].created_at
            /\ \A i \in DOMAIN listed : \E t \in Wanted :
                  /\ t.id = listed[i].id
                  /\ t.title = listed[i].title
                  /\ t.description = listed[i].description
                  /\ t.completed = listed[i].completed
                  /\ t.created_at = listed[i].created_at
            /\ tasks = turn_tasks

\* a listing of the caller's pending tasks that returns a task, while the
\* store also holds a completed task of the caller
C17_Witness ==
    /\ Listed
    /\ Opt(LatestCall.arguments, "status") = Some("pending")
    /\ Len(LatestCall.result) >= 1
    /\ \E t \in tasks : t.user_id = run_user_id /\ t.completed

----------------------------------------------------------------------------
(* C18: what a successful update_task leaves alone *)

\* the latest invocation is an update_task that returned status "updated"
Updated == /\ tool_calls_made # <<>>
           /\ LatestCall.name = "update_task"
           /\ LatestCall.result.status = "updated"

\* the row with the id the latest invocation names, in a set of rows
RowOf(rows) == CHOOSE t \in rows : t.id = LatestCall.arguments.task_id

----------------------------------------------------------------------------
(* C19: titles in the store *)

\* the latest invocation is an add_task whose title argument is empty
AddedEmpty == /\ tool_calls_made # <<>>
              /\ LatestCall.name = "add_task"
              /\ LatestCall.arguments.title = ""

\* C19: every task in the store has a non-empty title, and an add_task
\* with an empty title returns an error and creates no task.
C19_TitlesNonEmpty ==
    /\ \A t \in tasks : t.title # ""
    /\ AddedEmpty => LatestCall.result.status = "error" /\ tasks = turn_tasks

----------------------------------------------------------------------------
(* C20: delete_task invocations on one task at the same time *)

\* the two latest invocations are delete_task on the same task id
TwoDeletes ==
    /\ Len(tool_calls_made) = 2
    /\ tool_calls_made[1].name = "delete_task"
    /\ tool_calls_made[2].name = "delete_task"
    /\ tool_calls_made[1].arguments.task_id = tool_calls_made[2].arguments.task_id

\* C20: of the delete_task invocations on one task id at most one returns
\* status "deleted"; the other returns the not-found error.
C20_OneDeleteWins ==
    TwoDeletes =>
        \/ tool_calls_made[1].result.status # "deleted"
        \/ tool_calls_made[2].result = NotFound(tool_calls_made[2].arguments.task_id)

----------------------------------------------------------------------------
(* C21: the payload built from a history *)

\* C21: the payload built from a history of n messages is the system
\* instruction followed by the last min(n, 12) messages of the history, in
\* the order of the history, each as its role and content and nothing more.
C21_PayloadIsRecentHistory ==
    (pc = "idle" /\ openai_messages # <<>>) =>
        LET history == History(messages, 1)
            n == Len(history)
            k == IF n < 12 THEN n ELSE 12
        IN  /\ Len(openai_messages) = k + 1
            /\ openai_messages[1] = [role |-> "system", content |-> SYSTEM_PROMPT]
            /\ \A i \in 1..k :
                  openai_messages[i + 1] = [role |-> history[n - k + i].role,
                                            content |-> history[n - k + i].content]

\* a payload built from 14 messages: the two oldest, by the user, are
\* dropped and the third, by the assistant, comes right after the system
\* instruction
C21_Witness ==
    /\ pc = "idle"
    /\ Len(messages) = 14
    /\ Len(openai_messages) = 13
    /\ messages[1].role = "user"
    /\ messages[2].role = "user"
    /\ messages[3].role = "assistant"
    /\ openai_messages[2].role = "assistant"
    /\ openai_messages[13].role = "user"

----------------------------------------------------------------------------
(* C22: the response of the fast path to a listing *)

\* the lines of a text: its parts between line feeds
RECURSIVE SplitLines(_)
SplitLines(text) ==
    LET at == {i \in 1..Len(text) : SubSeq(text, i, i) = "\n"}
    IN  IF at = {} THEN <<text>>
        ELSE LET first == CHOOSE i \in at : \A j \in at : i <= j
             IN  <<SubSeq(text, 1, first - 1)>>
                 \o SplitLines(SubSeq(text, first + 1, Len(text)))

\* the latest request was answered by the fast path with a listing
FastListed ==
    /\ RunFinished
    /\ llm_calls = 0
    /\ reply.status = 200
    /\ Len(reply.tool_calls) = 1
    /\ reply.tool_calls[1].name = "list_tasks"

\* C22: the response to a listing of no tasks is "You don't have any
\* matching tasks yet."; the response to a listing of k tasks shows, after
\* its heading, a line for each of the first min(k, 10) tasks in the order
\* of the listing, and then the line "...and N more." with N = k - 10 if and
\* only if k > 10.
C22_ListingShowsTen ==
    FastListed =>
        LET items == reply.tool_calls[1].result
            k == Len(items)
            shown == IF k < 10 THEN k ELSE 10
            lines == SplitLines(reply.response)
        IN  IF k = 0
            THEN reply.response = "You don't have any matching tasks yet."
            ELSE /\ Len(lines) = 1 + shown + (IF k > 10 THEN 1 ELSE 0)
                 /\ lines[1] = "Here are your tasks:"
                 /\ \A i \in 1..shown :
                       lines[i + 1] = (IF items[i].completed THEN "Done" ELSE "Todo")
                                      \o " #" \o ToString(items[i].id) \o ": "
                                      \o items[i].title
                 /\ k > 10 =>
                       lines[Len(lines)] = "...and " \o ToString(k - 10) \o " more."

\* a listing of 12 tasks: ten lines from task 12 down to task 3, and
\* "...and 2 more."
C22_Witness ==
    /\ FastListed
    /\ Len(reply.tool_calls[1].result) = 12
    /\ Len(SplitLines(reply.response)) = 12
    /\ SplitLines(reply.response)[2] = "Todo #12: t12"
    /\ SplitLines(reply.response)[11] = "Todo #3: t3"
    /\ SplitLines(reply.response)[12] = "...and 2 more."

----------------------------------------------------------------------------
(* C23: quote-stripping applied twice *)

\* the text begins and ends with the same quote character
Wrapped(text) ==
    /\ Len(text) >= 2
    /\ SubSeq(text, 1, 1) \in {"'", "\""}
    /\ SubSeq(text, 1, 1) = SubSeq(text, Len(text), Len(text))

\* the text has white space neither at its beginning nor at its end
Trimmed(text) ==
    text = "" \/ (/\ SubSeq(text, 1, 1) \notin Whitespace
                  /\ SubSeq(text, Len(text), Len(text)) \notin Whitespace)

\* C23 as stated: for every text, quote-stripping applied to what
\* quote-stripping returned gives the same text again.
C23_StripIsIdempotent ==
    Len(stripped) = 2 => stripped[2] = stripped[1]

\* C23, amended: quote-stripping returns a text free of wrapping quotes and
\* of surrounding white space unchanged; applied to what it returned it
\* gives the same text again unless that text is itself wrapped in quotes;
\* and 'x' and "x" resolve to x without its surrounding white space.
C23_StripsOneLayer ==
    /\ (Len(stripped) >= 1 /\ ~Wrapped(quoted) /\ Trimmed(quoted)) =>
          stripped[1] = quoted
    /\ (Len(stripped) = 2 /\ ~Wrapped(stripped[1])) => stripped[2] = stripped[1]
    /\ (Len(stripped) >= 1 /\ Wrapped(quoted)) =>
          /\ Trimmed(stripped[1])
          /\ \E i \in 2..Len(quoted) : \E j \in (i - 1)..(Len(quoted) - 1) :
                /\ stripped[1] = SubSeq(quoted, i, j)
                /\ \A k \in (2..(i - 1)) \cup ((j + 1)..(Len(quoted) - 1)) :
                      SubSeq(quoted, k, k) \in Whitespace

\* "a a" in double quotes resolves to a a, and so does a a
C23_Witness ==
    /\ quoted = "\"a a\""
    /\ stripped = <<"a a", "a a">>

----------------------------------------------------------------------------
(* C24: the fast path's complete, delete and update *)

\* the latest request was answered by the fast path with complete_task,
\* delete_task or update_task
FastById ==
    /\ RunFinished
    /\ llm_calls = 0
    /\ reply.status = 200
    /\ Len(reply.tool_calls) = 1
    /\ reply.tool_calls[1].name \in {"complete_task", "delete_task", "update_task"}

\* the caller's task with the id the request named, as the request found it
Target ==
    {t \in turn_tasks : /\ t.id = reply.tool_calls[1].arguments.task_id
                        /\ t.user_id = run_user_id}

\* the response for a task that was found: verb, id and title
Confirmation ==
    LET entry == reply.tool_calls[1]
        verb == CASE entry.name = "complete_task" -> "Completed"
                  [] entry.name = "delete_task" -> "Deleted"
                  [] entry.name = "update_task" -> "Updated"
        title == IF entry.name = "update_task" THEN entry.arguments.title
                 ELSE (CHOOSE t \in Target : TRUE).title
    IN  verb \o " task #" \o ToString(entry.arguments.task_id) \o ": " \o title \o "."

\* what the claim says of a task that is not found, but for the sentence
NotFoundEntry ==
    /\ reply.tool_calls[1].result = NotFound(reply.tool_calls[1].arguments.task_id)
    /\ reply.response = reply.tool_calls[1].result.error
    /\ tasks = turn_tasks

\* C24 as stated: when the task is not found for the owner the response is
\* the sentence "Task not found.", the trail is the one error entry and no
\* task is changed; otherwise the response confirms the id and title.
C24_NotFoundSentence ==
    FastById =>
        IF Target = {} THEN NotFoundEntry /\ reply.response = "Task not found."
        ELSE reply.response = Confirmation

\* C24, amended: when the task is not found for the owner the response is
\* the error text of the tool as it is, "Task not found" with no full stop,
\* the trail is the one error entry and no task is changed; otherwise the
\* response confirms the id and title.
C24_NotFoundVerbatim ==
    FastById =>
        IF Target = {} THEN NotFoundEntry /\ reply.response = "Task not found"
        ELSE reply.response = Confirmation

\* a fast-path request for task 1, which is another owner's: not found
C24_Witness ==
    /\ FastById
    /\ Target = {}
    /\ \E t \in tasks : t.id = 1 /\ t.user_id # run_user_id
    /\ reply.tool_calls[1].arguments.task_id = 1
    /\ reply.response = "Task not found"

----------------------------------------------------------------------------
(* C25: the running message list *)

\* the positions of the assistant turns that carry requested invocations
RequestTurns ==
    {j \in DOMAIN openai_messages : "tool_calls" \in DOMAIN openai_messages[j]}

\* the positions of the tool-result turns
ResultTurns ==
    {i \in DOMAIN openai_messages : openai_messages[i].role = "tool"}

\* the results that follow the request turn at position j
ResultsAfter(j) ==
    LET later == {k \in RequestTurns : k > j}
        next == IF later = {} THEN Len(openai_messages) + 1
                ELSE CHOOSE k \in later : \A l \in later : k <= l
    IN  next - j - 1

\* every tool-result turn is the n-th turn after a request turn that asked
\* for it as its n-th invocation, and every request turn has all its results
\* after it once its round is over
ListInOrder ==
    /\ \A i \in ResultTurns :
          \E j \in RequestTurns :
             /\ j < i
             /\ i - j <= Len(openai_messages[j].tool_calls)
             /\ \A k \in (j + 1)..i : openai_messages[k].role = "tool"
             /\ openai_messages[i].tool_call_id =
                   openai_messages[j].tool_calls[i - j].id
    /\ \A j \in RequestTurns :
          ResultsAfter(j) =
             IF pc = "tools" /\ \A k \in RequestTurns : k <= j
             THEN Len(openai_messages[j].tool_calls) - Len(pending)
             ELSE Len(openai_messages[j].tool_calls)
    /\ \A i \in DOMAIN openai_messages :
          i \in RequestTurns \cup ResultTurns \/ i <= MAX_CONTEXT_MESSAGES + 1

\* the step in which the model's request is taken up: one assistant turn
\* with the requested invocations, in order, is appended and nothing is
\* executed
RequestIsListedFirst ==
    (pc = "llm" /\ pc' = "tools") =>
        /\ Len(openai_messages') = Len(openai_messages) + 1
        /\ SubSeq(openai_messages', 1, Len(openai_messages)) = openai_messages
        /\ LET turn == openai_messages'[Len(openai_messages')]
           IN  /\ turn.role = "assistant"
               /\ Len(turn.tool_calls) = Len(pending')
               /\ \A k \in DOMAIN pending' :
                     /\ turn.tool_calls[k].id = pending'[k].id
                     /\ turn.tool_calls[k].function.name = pending'[k].name
        /\ executed' = executed
        /\ tool_calls_made' = tool_calls_made
        /\ tasks' = tasks

----------------------------------------------------------------------------
(* C26: the invocations of the last round *)

\* C26: when the model has requested invocations in all 4 rounds, the run
\* ends with every requested invocation executed and entered, in order, in
\* the audit trail it returns, with the generic text as its final text and
\* without a fifth LLM call, whatever the invocations of the last round
\* returned.
C26_LastRoundExecuted ==
    (RunFinished /\ tool_rounds = 4) =>
        /\ reply.status = 200
        /\ reply.response = GENERIC_TEXT
        /\ llm_calls = 4
        /\ Len(executed) = Len(requested)
        /\ Len(reply.tool_calls) = Len(requested)
        /\ \A k \in DOMAIN executed : executed[k].id = requested[k]

----------------------------------------------------------------------------
(* C27: the completed flag *)

\* no step takes a completed task back to pending
StaysCompleted ==
    \A t \in tasks : t.completed =>
        \A u \in tasks' : u.id = t.id => u.completed

\* the latest invocation is a complete_task on a task of the caller that
\* was completed already
CompletedAgain ==
    /\ tool_calls_made # <<>>
    /\ LatestCall.name = "complete_task"
    /\ \E t \in turn_tasks : /\ t.id = LatestCall.arguments.task_id
                             /\ t.user_id = run_user_id
                             /\ t.completed

\* C27: no tool operation changes the completed flag of a task from true
\* to false: a completed task stays completed as long as it is in the
\* store, and complete_task on a completed task returns status "completed"
\* again and leaves the task completed.
C27_CompletedIsMonotone ==
    /\ [][StaysCompleted]_vars
    /\ [](CompletedAgain =>
             /\ LatestCall.result.status = "completed"
             /\ \E t \in tasks : /\ t.id = LatestCall.arguments.task_id
                                 /\ t.completed)

\* complete_task on a completed task that has been renamed since
C27_Witness ==
    /\ CompletedAgain
    /\ LatestCall.result.status = "completed"
    /\ LatestCall.result.title = "c"
    /\ \E t \in tasks : t.id = 1 /\ t.completed /\ t.title = "c"

----------------------------------------------------------------------------
(* C28: what delete_task removes, and the id afterwards *)

\* the latest invocation is a delete_task that returned status "deleted"
Deleted ==
    /\ tool_calls_made # <<>>
    /\ LatestCall.name = "delete_task"
    /\ LatestCall.result.status = "deleted"

\* the invocation before the latest was a successful delete_task, and the
\* latest is by the same owner
AfterDelete ==
    /\ Len(tool_calls_made) = 2
    /\ tool_calls_made[1].name = "delete_task"
    /\ tool_calls_made[1].result.status = "deleted"
    /\ executed[1].ran_as = executed[2].ran_as

\* the ids of tasks that were created and are no longer in the store
GoneIds == {id \in 1..(task_seq - 1) : \A t \in tasks : t.id # id}

----------------------------------------------------------------------------
(* C29: rejected requests and the messages of a turn *)

\* a request is rejected: nothing is stored, created, executed or asked
NoEffect ==
    /\ messages' = messages
    /\ conversations' = conversations
    /\ tasks' = tasks
    /\ task_seq' = task_seq
    /\ tools_requested' = tools_requested
    /\ llm_calls' = 0
    /\ executed' = <<>>
    /\ pc' = "idle"

\* the requests chat rejects, and what it accepts
Rejections ==
    /\ \A u \in UserSet : \A a \in UserSet :
          ChatForbidden(u, a) => (u # a /\ reply'.status = 403 /\ NoEffect)
    /\ \A u \in UserSet : \A c \in 1..(Len(conversations) + 1) :
          ChatNotFound(u, c) =>
             /\ c \notin DOMAIN conversations \/ conversations[c] # u
             /\ reply'.status = 404
             /\ NoEffect
    /\ \A u \in UserSet : \A c \in 0..(Len(conversations) + 1) :
       \A i \in 1..Len(UserTexts) :
          Chat(u, c, UserTexts[i]) =>
             c = 0 \/ (c \in DOMAIN conversations /\ conversations[c] = u)

\* the rows of the messages table are only ever added to, at the end: the
\* user message when a turn begins, the assistant message when it completes
MessagesGrow ==
    /\ Len(messages') >= Len(messages)
    /\ SubSeq(messages', 1, Len(messages)) = messages
    /\ (pc = "idle" /\ pc' # "idle") =>
          /\ Len(messages') = Len(messages) + 1
          /\ messages'[Len(messages')] =
                Message(run_user_id', run_conversation', "user",
                        messages'[Len(messages')].content)
    /\ (pc # "idle" /\ pc' # "idle") => messages' = messages
    /\ (pc # "idle" /\ pc' = "idle") =>
          IF reply'.status = 200
          THEN messages' = Append(messages,
                                  Message(run_user_id, run_conversation, "assistant",
                                          reply'.response))
          ELSE messages' = messages
    /\ (pc = "idle" /\ pc' = "idle" /\ messages' # messages) =>
          /\ reply'.status = 200
          /\ Len(messages') = Len(messages) + 2
          /\ messages'[Len(messages') - 1].role = "user"
          /\ messages'[Len(messages')] =
                Message(run_user_id', run_conversation', "assistant", reply'.response)

\* a turn that completed left, at the end of its conversation, its user
\* message followed by its assistant message
TurnStored ==
    (RunFinished /\ reply.status = 200) =>
        LET history == History(messages, run_conversation)
            n == Len(history)
        IN  /\ n >= 2
            /\ history[n - 1].role = "user"
            /\ history[n - 1].user_id = run_user_id
            /\ history[n] = Message(run_user_id, run_conversation, "assistant",
                                    reply.response)

\* C29: chat rejects a request with 403 when the path user is not the
\* authenticated user and with 404 when the conversation id is not a
\* conversation of the user, in both cases with no message stored, no
\* conversation created and no tool or LLM call made; a turn that completes
\* adds one user message and then one assistant message to the conversation
\* and no step changes or removes an earlier message.
C29_RejectsBeforeEffect ==
    /\ [][Rejections]_vars
    /\ [][MessagesGrow]_vars
    /\ [] TurnStored

\* a request for a conversation that is not the user's was rejected after a
\* completed turn, whose two messages are in the table
C29_Witness ==
    /\ reply.status = 404
    /\ pc = "idle"
    /\ Len(conversations) = 1
    /\ Len(messages) = 2
    /\ messages[1].role = "user"
    /\ messages[2].role = "assistant"

====
